---------------------------- MODULE Spec2Model ----------------------------
(***************************************************************************)
(* Model of the two scripts of mastering-taproot:                          *)
(*   code/chapter05/01_demonstrate_key_tweaking.py  (Taproot key tweaking) *)
(*   code/chapter02/01_build_p2pkh_transaction.py   (P2PKH transaction)    *)
(*                                                                         *)
(* secp256k1 cannot be enumerated, so the curve is scaled down and keeps   *)
(* its shape: y^2 = x^3 + 7 over the prime field F_13, a group of prime    *)
(* order 7 (secp256k1: field 2^256 - 2^32 - 977, prime order n < p).  A    *)
(* byte has ByteBase = 4 values and a key or digest has KeyLen = 2 bytes,  *)
(* so that n < p < ByteBase^KeyLen as on secp256k1 (n < p < 2^256).        *)
(* SHA-256 is an unknown function: a lazily sampled table (hashTable)      *)
(* that answers a repeated query with the digest it gave before.           *)
(***************************************************************************)
EXTENDS Integers, Sequences, FiniteSets, TLC

\* ------------------------------------------------------------------------
\* State
\* ------------------------------------------------------------------------
VARIABLES
    pc,                        \* position in demonstrate_key_tweaking
    wif_key,                   \* the key bytes the WIF string decodes to
    internal_private_key,      \* secret exponent of the internal key
    internal_public_key,       \* its point
    script_commitment,
    internal_pubkey_bytes,
    tag_hash,
    tweak_preimage,
    tweak_hash,
    tweak_int,
    internal_privkey_int,
    tweaked_privkey_int,
    tweaked_private_key,
    tweaked_public_key,
    expected_output_key_xonly,
    output_key_match,
    verification_result,
    result,                    \* the returned dictionary
    error,                     \* the exception that ended the invocation
    hashTable,                 \* the sha256 answers given so far
    prev,                      \* input and result of the earlier invocation
    ppc,                       \* position in main() of the P2PKH script
    p2pkh                      \* the P2PKH script's objects

\* ------------------------------------------------------------------------
\* Scaled constants of the program
\* ------------------------------------------------------------------------
curve_order == 7

FieldP == 13

CurveB == 7

HexBase == 2

KeyLen == 2

\* a byte is two hex digits
ByteBase == HexBase * HexBase

\* length of the longest script commitment explored
MaxCommitLen == 1

Bytes == 0 .. (ByteBase - 1)

\* the byte values a commitment is made of
CommitBytes == {ByteBase - 1}

RECURSIVE Pow(_, _)
Pow(b, e) == IF e = 0 THEN 1 ELSE b * Pow(b, e - 1)

\* number of values of a KeyLen-byte string (2^256 in the program)
KeySpace == Pow(ByteBase, KeyLen)

RECURSIVE SeqsOfLen(_, _)
SeqsOfLen(S, k) ==
    IF k = 0 THEN {<< >>}
    ELSE {Append(s, b) : s \in SeqsOfLen(S, k - 1), b \in S}

SeqsUpTo(S, k) == UNION {SeqsOfLen(S, j) : j \in 0 .. k}

Commitments == SeqsUpTo(CommitBytes, MaxCommitLen)

Digests == SeqsOfLen(Bytes, KeyLen)

\* ------------------------------------------------------------------------
\* Byte and hex conversions
\* ------------------------------------------------------------------------
\* int.from_bytes(b, 'big')
RECURSIVE FromBytesBig(_)
FromBytesBig(b) ==
    IF Len(b) = 0 THEN 0
    ELSE FromBytesBig(SubSeq(b, 1, Len(b) - 1)) * ByteBase + b[Len(b)]

\* int.to_bytes(len, 'big'); the caller checks v < ByteBase^len
RECURSIVE ToBytesBig(_, _)
ToBytesBig(v, len) ==
    IF len = 0 THEN << >>
    ELSE Append(ToBytesBig(v \div ByteBase, len - 1), v % ByteBase)

\* bytes.hex(): two hex digits a byte, high digit first
RECURSIVE ToHexStr(_)
ToHexStr(b) ==
    IF Len(b) = 0 THEN << >>
    ELSE <<b[1] \div HexBase, b[1] % HexBase>> \o ToHexStr(Tail(b))

\* bytes.fromhex()
RECURSIVE BytesFromHex(_)
BytesFromHex(h) ==
    IF Len(h) < 2 THEN << >>
    ELSE <<h[1] * HexBase + h[2]>> \o BytesFromHex(SubSeq(h, 3, Len(h)))

\* ------------------------------------------------------------------------
\* The curve y^2 = x^3 + CurveB over F_FieldP (the key library's arithmetic)
\* ------------------------------------------------------------------------
Inf == <<0, 0>>

ModP(a) == ((a % FieldP) + FieldP) % FieldP

ModInv(a) == CHOOSE z \in 1 .. (FieldP - 1) : (ModP(a) * z) % FieldP = 1

OnCurve(A) == (A[2] * A[2]) % FieldP = (A[1] * A[1] * A[1] + CurveB) % FieldP

CurvePoints == {A \in (0 .. (FieldP - 1)) \X (0 .. (FieldP - 1)) : OnCurve(A)}

PointAdd(A, B) ==
    IF A = Inf THEN B
    ELSE IF B = Inf THEN A
    ELSE IF A[1] = B[1] /\ ModP(A[2] + B[2]) = 0 THEN Inf
    ELSE LET l == IF A = B
                  THEN ModP(3 * A[1] * A[1] * ModInv(2 * A[2]))
                  ELSE ModP((B[2] - A[2]) * ModInv(B[1] - A[1]))
             x == ModP(l * l - A[1] - B[1])
         IN  <<x, ModP(l * (A[1] - x) - A[2])>>

RECURSIVE ScalarMul(_, _)
ScalarMul(k, A) == IF k = 0 THEN Inf ELSE PointAdd(ScalarMul(k - 1, A), A)

\* the generator, with even y like secp256k1's
G == <<7, 8>>

\* k*G for every reduced scalar, evaluated once
GTable == [k \in 0 .. (curve_order - 1) |-> ScalarMul(k, G)]

MulG(k) == GTable[k % curve_order]

HasEvenY(A) == A[2] % 2 = 0

\* lift_x: the point with the given x and even y
LiftX(x) == CHOOSE A \in CurvePoints : A[1] = x /\ HasEvenY(A)


\* ------------------------------------------------------------------------
\* Keys (bitcoinutils.keys) as the tweaking script uses them
\* ------------------------------------------------------------------------
\* a faulty variant: the exponent is not range-checked
PrivateKeyValidUnchecked(secexp) == TRUE

\* PrivateKey(wif) and PrivateKey.from_bytes(b) accept a secret exponent
\* in [1, n - 1] only
PrivateKeyValid(secexp) == 1 <= secexp /\ secexp < curve_order

\* PrivateKey.get_public_key()
GetPublicKey(secexp) == MulG(secexp)

\* PrivateKey.to_bytes()
PrivateKeyToBytes(secexp) == ToBytesBig(secexp, KeyLen)

\* PublicKey.to_x_only_hex(): the x coordinate, KeyLen bytes
ToXOnlyHex(A) == ToHexStr(ToBytesBig(A[1], KeyLen))

\* PublicKey.to_hex(): compressed, prefix 02 (even y) or 03 (odd y)
ToHex(A) == ToHexStr(<<IF HasEvenY(A) THEN 2 ELSE 3>>) \o ToXOnlyHex(A)

\* ------------------------------------------------------------------------
\* SHA-256 as a lazily sampled function
\* ------------------------------------------------------------------------
\* b'TapTweak'
TapTweakBytes == <<1, 2, 3>>

\* the digests sha256 may answer msg with, given the answers so far
Sha256Answers(table, msg) ==
    IF msg \in DOMAIN table THEN {table[msg]} ELSE Digests

Sha256Record(table, msg, h) ==
    IF msg \in DOMAIN table THEN table ELSE table @@ (msg :> h)

\* ------------------------------------------------------------------------
\* The steps of demonstrate_key_tweaking as operators
\* ------------------------------------------------------------------------
\* a faulty variant: key and commitment swapped in the preimage
TweakPreimageSwapped(tag, xonly, commitment) ==
    tag \o tag \o commitment \o xonly

\* tag_hash + tag_hash + internal_pubkey_bytes + script_commitment
TweakPreimage(tag, xonly, commitment) ==
    tag \o tag \o xonly \o commitment

\* int.from_bytes(tweak_hash, 'big')
TweakInt(h) == FromBytesBig(h)

\* faulty variants: the sum is not reduced; the tweak is subtracted; the tweak
\* is added to the key an earlier invocation left tweaked
ApplyTweakUnreduced(d, t) == d + t

ApplyTweakCarried(d, t) ==
    ((IF prev.called THEN prev.ret.tweaked_private ELSE d) + t) % curve_order

ApplyTweakSubtract(d, t) == (d + curve_order * KeySpace - t) % curve_order

\* (internal_privkey_int + tweak_int) % curve_order
ApplyTweak(d, t) == (d + t) % curve_order

\* tweaked_public_key.to_hex()[2:]
OutputKeyXOnly(pubhex) == SubSeq(pubhex, 3, Len(pubhex))

\* get_taproot_address([]).to_witness_program() for the tweak digest th of
\* the key alone: lift x(P) to even y, add t*G, x-only hex (BIP341)
TaprootOutputPoint(A, th) == PointAdd(LiftX(A[1]), MulG(TweakInt(th)))

\* tweaked_private_key.get_public_key().to_hex() == tweaked_public_key.to_hex()
VerificationStep(tpriv, tpub) == ToHex(GetPublicKey(tpriv)) = ToHex(tpub)

\* ------------------------------------------------------------------------
\* State tuples and the values of unbound locals
\* ------------------------------------------------------------------------
tweakLocals ==
    <<internal_private_key, internal_public_key, script_commitment,
      internal_pubkey_bytes, tag_hash, tweak_preimage, tweak_hash, tweak_int,
      internal_privkey_int, tweaked_privkey_int, tweaked_private_key,
      tweaked_public_key, expected_output_key_xonly, output_key_match,
      verification_result, result, error>>

tweakVars == <<pc, wif_key, tweakLocals, hashTable, prev>>

p2pkhVars == <<ppc, p2pkh>>

vars == <<tweakVars, p2pkhVars>>

NoInt == 0 - 1

NoResult ==
    [returned |-> FALSE, internal_private |-> NoInt, internal_public |-> Inf,
     tweak_hash |-> << >>, tweaked_private |-> NoInt, tweaked_public |-> Inf]

NoPrev ==
    [called |-> FALSE, commitment |-> << >>, preimage |-> << >>,
     ret |-> NoResult]

\* the locals before the function body has run
FreshLocals ==
    /\ internal_private_key = NoInt
    /\ internal_public_key = Inf
    /\ script_commitment = << >>
    /\ internal_pubkey_bytes = << >>
    /\ tag_hash = << >>
    /\ tweak_preimage = << >>
    /\ tweak_hash = << >>
    /\ tweak_int = NoInt
    /\ internal_privkey_int = NoInt
    /\ tweaked_privkey_int = NoInt
    /\ tweaked_private_key = NoInt
    /\ tweaked_public_key = Inf
    /\ expected_output_key_xonly = << >>
    /\ output_key_match = FALSE
    /\ verification_result = FALSE
    /\ result = NoResult
    /\ error = "none"

\* ------------------------------------------------------------------------
\* demonstrate_key_tweaking, one action a step
\* ------------------------------------------------------------------------
\* Step 1: PrivateKey(wif), get_public_key()
Step1_InternalKey ==
    /\ pc = "step1"
    /\ LET secexp == FromBytesBig(wif_key) IN
         IF PrivateKeyValid(secexp)
         THEN /\ internal_private_key' = secexp
              /\ internal_public_key' = GetPublicKey(secexp)
              /\ pc' = "step2"
              /\ error' = error
         ELSE /\ error' = "MalformedPointError"
              /\ pc' = "raised"
              /\ UNCHANGED <<internal_private_key, internal_public_key>>
    /\ UNCHANGED <<wif_key, script_commitment, internal_pubkey_bytes, tag_hash,
                   tweak_preimage, tweak_hash, tweak_int, internal_privkey_int,
                   tweaked_privkey_int, tweaked_private_key, tweaked_public_key,
                   expected_output_key_xonly, output_key_match,
                   verification_result, result, hashTable, prev, p2pkhVars>>

\* Step 2: the script commitment (b'' in the script; any byte string here)
Step2_Commitment ==
    /\ pc = "step2"
    /\ \E c \in Commitments : script_commitment' = c
    /\ pc' = "step3"
    /\ UNCHANGED <<wif_key, internal_private_key, internal_public_key,
                   internal_pubkey_bytes, tag_hash, tweak_preimage, tweak_hash,
                   tweak_int, internal_privkey_int, tweaked_privkey_int,
                   tweaked_private_key, tweaked_public_key,
                   expected_output_key_xonly, output_key_match,
                   verification_result, result, error, hashTable, prev,
                   p2pkhVars>>

\* Step 3: the BIP341 tagged hash and its integer
Step3_Tweak ==
    /\ pc = "step3"
    /\ LET xonly == BytesFromHex(ToXOnlyHex(internal_public_key)) IN
       \E tag \in Sha256Answers(hashTable, TapTweakBytes) :
         LET table1 == Sha256Record(hashTable, TapTweakBytes, tag)
             preimage == TweakPreimage(tag, xonly, script_commitment)
         IN  \E h \in Sha256Answers(table1, preimage) :
               /\ internal_pubkey_bytes' = xonly
               /\ tag_hash' = tag
               /\ tweak_preimage' = preimage
               /\ tweak_hash' = h
               /\ tweak_int' = TweakInt(h)
               /\ hashTable' = Sha256Record(table1, preimage, h)
    /\ pc' = "step4"
    /\ UNCHANGED <<wif_key, internal_private_key, internal_public_key,
                   script_commitment, internal_privkey_int,
                   tweaked_privkey_int, tweaked_private_key,
                   tweaked_public_key, expected_output_key_xonly,
                   output_key_match, verification_result, result, error, prev,
                   p2pkhVars>>

\* Step 4: d' = (d + t) mod n, PrivateKey.from_bytes(d'), its public key
Step4_ApplyTweak ==
    /\ pc = "step4"
    /\ LET d == FromBytesBig(PrivateKeyToBytes(internal_private_key))
           dt == ApplyTweak(d, tweak_int)
       IN  /\ internal_privkey_int' = d
           /\ tweaked_privkey_int' = dt
           /\ IF dt >= KeySpace
              THEN \* int.to_bytes(32, 'big') of a value that does not fit
                   /\ error' = "OverflowError"
                   /\ pc' = "raised"
                   /\ UNCHANGED <<tweaked_private_key, tweaked_public_key>>
              ELSE LET secexp == FromBytesBig(ToBytesBig(dt, KeyLen)) IN
                   IF PrivateKeyValid(secexp)
                   THEN /\ tweaked_private_key' = secexp
                        /\ tweaked_public_key' = GetPublicKey(secexp)
                        /\ pc' = "step4_output_key"
                        /\ error' = error
                   ELSE /\ error' = "MalformedPointError"
                        /\ pc' = "raised"
                        /\ UNCHANGED <<tweaked_private_key, tweaked_public_key>>
    /\ UNCHANGED <<wif_key, internal_private_key, internal_public_key,
                   script_commitment, internal_pubkey_bytes, tag_hash,
                   tweak_preimage, tweak_hash, tweak_int,
                   expected_output_key_xonly, output_key_match,
                   verification_result, result, hashTable, prev, p2pkhVars>>

\* Step 4, lines 93-96: the library's own Taproot output key for the
\* internal key and no scripts, compared with the x-only tweaked key
Step4_OutputKey ==
    /\ pc = "step4_output_key"
    /\ LET xonly == BytesFromHex(ToXOnlyHex(internal_public_key)) IN
       \E tag \in Sha256Answers(hashTable, TapTweakBytes) :
         LET table1 == Sha256Record(hashTable, TapTweakBytes, tag)
             preimage == TweakPreimage(tag, xonly, << >>)
         IN  \E th \in Sha256Answers(table1, preimage) :
               LET Q == TaprootOutputPoint(internal_public_key, th) IN
               /\ hashTable' = Sha256Record(table1, preimage, th)
               /\ IF Q = Inf
                  THEN \* the point at infinity has no x coordinate
                       /\ error' = "LibraryError"
                       /\ pc' = "raised"
                       /\ UNCHANGED <<expected_output_key_xonly,
                                      output_key_match>>
                  ELSE /\ expected_output_key_xonly' = ToXOnlyHex(Q)
                       /\ output_key_match' =
                            (OutputKeyXOnly(ToHex(tweaked_public_key))
                               = ToXOnlyHex(Q))
                       /\ pc' = "step5"
                       /\ error' = error
    /\ UNCHANGED <<wif_key, internal_private_key, internal_public_key,
                   script_commitment, internal_pubkey_bytes, tag_hash,
                   tweak_preimage, tweak_hash, tweak_int, internal_privkey_int,
                   tweaked_privkey_int, tweaked_private_key,
                   tweaked_public_key, verification_result, result, prev,
                   p2pkhVars>>

\* Step 5: the verification
Step5_Verify ==
    /\ pc = "step5"
    /\ verification_result' =
         VerificationStep(tweaked_private_key, tweaked_public_key)
    /\ pc' = "return"
    /\ UNCHANGED <<wif_key, internal_private_key, internal_public_key,
                   script_commitment, internal_pubkey_bytes, tag_hash,
                   tweak_preimage, tweak_hash, tweak_int, internal_privkey_int,
                   tweaked_privkey_int, tweaked_private_key,
                   tweaked_public_key, expected_output_key_xonly,
                   output_key_match, result, error, hashTable, prev,
                   p2pkhVars>>

\* the returned dictionary
ReturnValue(ipriv, ipub, th, tpriv, tpub) ==
    [returned |-> TRUE, internal_private |-> ipriv, internal_public |-> ipub,
     tweak_hash |-> th, tweaked_private |-> tpriv, tweaked_public |-> tpub]

Return ==
    /\ pc = "return"
    /\ result' = ReturnValue(internal_private_key, internal_public_key,
                             tweak_hash, tweaked_private_key,
                             tweaked_public_key)
    /\ pc' = "returned"
    /\ UNCHANGED <<wif_key, internal_private_key, internal_public_key,
                   script_commitment, internal_pubkey_bytes, tag_hash,
                   tweak_preimage, tweak_hash, tweak_int, internal_privkey_int,
                   tweaked_privkey_int, tweaked_private_key,
                   tweaked_public_key, expected_output_key_xonly,
                   output_key_match, verification_result, error, hashTable,
                   prev, p2pkhVars>>

\* a second invocation of demonstrate_key_tweaking in the same process: the
\* first one's input and result are remembered, the locals are fresh
Reinvoke ==
    /\ pc = "returned"
    /\ ~prev.called
    /\ prev' = [called |-> TRUE, commitment |-> script_commitment,
                preimage |-> tweak_preimage, ret |-> result]
    /\ internal_private_key' = NoInt
    /\ internal_public_key' = Inf
    /\ script_commitment' = << >>
    /\ internal_pubkey_bytes' = << >>
    /\ tag_hash' = << >>
    /\ tweak_preimage' = << >>
    /\ tweak_hash' = << >>
    /\ tweak_int' = NoInt
    /\ internal_privkey_int' = NoInt
    /\ tweaked_privkey_int' = NoInt
    /\ tweaked_private_key' = NoInt
    /\ tweaked_public_key' = Inf
    /\ expected_output_key_xonly' = << >>
    /\ output_key_match' = FALSE
    /\ verification_result' = FALSE
    /\ result' = NoResult
    /\ error' = "none"
    /\ pc' = "step1"
    /\ UNCHANGED <<wif_key, hashTable, p2pkhVars>>

\* ------------------------------------------------------------------------
\* The P2PKH script: objects of bitcoinutils as values
\* ------------------------------------------------------------------------
\* the previous transaction's id, and the amounts and output indices tried
PrevTxId == "34b90a15"

Amounts == {29400, 29606}

VoutIndices == {0, 1}

\* hash160 of a public key, as a term
Hash160(pubhex) == <<"hash160", pubhex>>

\* P2pkhAddress.to_script_pub_key()
P2pkhScriptPubKey(h160) ==
    <<"OP_DUP", "OP_HASH160", h160, "OP_EQUALVERIFY", "OP_CHECKSIG">>

\* P2wpkhAddress.to_script_pub_key()
P2wpkhScriptPubKey(prog) == <<"OP_0", prog>>

\* TxInput(txid, vout): no unlocking script, default sequence
TxInput(txid, index) ==
    [txid |-> txid, txout_index |-> index, script_sig |-> << >>,
     sequence |-> "ffffffff"]

TxOutput(amount, script) == [amount |-> amount, script_pubkey |-> script]

\* Transaction(inputs, outputs) keeps the objects it is given: the lists
\* hold references (names of the script's objects), not copies
Transaction(inputs, outputs) ==
    [inputs |-> inputs, outputs |-> outputs, version |-> 2, locktime |-> 0]

\* the wire form of a transaction whose inputs and outputs are values
SerializeValues(version, ins, outs, locktime) ==
    [version |-> version,
     inputs |-> [i \in 1 .. Len(ins) |->
                   <<ins[i].txid, ins[i].txout_index, ins[i].script_sig,
                     ins[i].sequence>>],
     outputs |-> [i \in 1 .. Len(outs) |->
                    <<outs[i].amount, outs[i].script_pubkey>>],
     locktime |-> locktime]

\* the inputs (outputs) a transaction refers to, as they are now
InputsOf(env, tx) == [i \in 1 .. Len(tx.inputs) |-> env[tx.inputs[i]]]

OutputsOf(env, tx) == [i \in 1 .. Len(tx.outputs) |-> env[tx.outputs[i]]]

\* tx.serialize()
Serialize(env, tx) ==
    SerializeValues(tx.version, InputsOf(env, tx), OutputsOf(env, tx),
                    tx.locktime)

\* tx.get_transaction_digest(index, script, SIGHASH_ALL): a copy of the
\* transaction, every unlocking script emptied and input index given script
SigHashMessage(env, tx, index, script) ==
    LET ins == InputsOf(env, tx)
        blank == [i \in 1 .. Len(ins) |->
                    [ins[i] EXCEPT !.script_sig =
                       IF i = index + 1 THEN script ELSE << >>]]
    IN  <<SerializeValues(tx.version, blank, OutputsOf(env, tx), tx.locktime),
          "SIGHASH_ALL">>

\* private_key.sign_input(tx, index, script): an ECDSA signature as a term
SignInput(secexp, env, tx, index, script) ==
    [signer |-> secexp, message |-> SigHashMessage(env, tx, index, script)]

\* a faulty variant: public key first
UnlockingScriptSwapped(signature, pubhex) == <<pubhex, signature>>

\* Script([signature, public_key.to_hex()])
UnlockingScript(signature, pubhex) == <<signature, pubhex>>

NoSignature == [signer |-> NoInt, message |-> << >>]

NoTx == [inputs |-> << >>, outputs |-> << >>, version |-> 0, locktime |-> 0]

NoSerialization ==
    [version |-> 0, inputs |-> << >>, outputs |-> << >>, locktime |-> 0]

\* the script's objects before main() has created them
NoObjects ==
    [private_key |-> NoInt, public_key |-> Inf, from_address |-> << >>,
     to_address |-> << >>, vout |-> 0, amount_to_send |-> 0,
     txin |-> TxInput("", 0), txout |-> TxOutput(0, << >>), tx |-> NoTx,
     unsigned_tx |-> NoSerialization, p2pkh_script |-> << >>,
     signature |-> NoSignature, signed_tx |-> NoSerialization]

\* lines 28-37: the sender's key pair and address, the receiver's address
P_Keys ==
    /\ ppc = "keys"
    /\ p2pkh' = [p2pkh EXCEPT
         !.public_key = GetPublicKey(p2pkh.private_key),
         !.from_address = Hash160(ToHex(GetPublicKey(p2pkh.private_key))),
         !.to_address = "c5b28d6b"]
    /\ ppc' = "txin"
    /\ UNCHANGED tweakVars

\* lines 40-43
P_TxIn ==
    /\ ppc = "txin"
    /\ p2pkh' = [p2pkh EXCEPT !.txin = TxInput(PrevTxId, p2pkh.vout)]
    /\ ppc' = "txout"
    /\ UNCHANGED tweakVars

\* lines 46-51
P_TxOut ==
    /\ ppc = "txout"
    /\ p2pkh' = [p2pkh EXCEPT
         !.txout = TxOutput(p2pkh.amount_to_send,
                            P2wpkhScriptPubKey(p2pkh.to_address))]
    /\ ppc' = "tx"
    /\ UNCHANGED tweakVars

\* line 54
P_Transaction ==
    /\ ppc = "tx"
    /\ p2pkh' = [p2pkh EXCEPT !.tx = Transaction(<<"txin">>, <<"txout">>)]
    /\ ppc' = "print_unsigned"
    /\ UNCHANGED tweakVars

\* line 56
P_PrintUnsigned ==
    /\ ppc = "print_unsigned"
    /\ p2pkh' = [p2pkh EXCEPT !.unsigned_tx = Serialize(p2pkh, p2pkh.tx)]
    /\ ppc' = "locking_script"
    /\ UNCHANGED tweakVars

\* line 59
P_LockingScript ==
    /\ ppc = "locking_script"
    /\ p2pkh' = [p2pkh EXCEPT
         !.p2pkh_script = P2pkhScriptPubKey(p2pkh.from_address)]
    /\ ppc' = "sign"
    /\ UNCHANGED tweakVars

\* line 62
P_Sign ==
    /\ ppc = "sign"
    /\ p2pkh' = [p2pkh EXCEPT
         !.signature = SignInput(p2pkh.private_key, p2pkh, p2pkh.tx, 0,
                                 p2pkh.p2pkh_script)]
    /\ ppc' = "script_sig"
    /\ UNCHANGED tweakVars

\* line 65
P_ScriptSig ==
    /\ ppc = "script_sig"
    /\ p2pkh' = [p2pkh EXCEPT
         !.txin.script_sig =
            UnlockingScript(p2pkh.signature, ToHex(p2pkh.public_key))]
    /\ ppc' = "serialize"
    /\ UNCHANGED tweakVars

\* lines 68-71
P_SerializeSigned ==
    /\ ppc = "serialize"
    /\ p2pkh' = [p2pkh EXCEPT !.signed_tx = Serialize(p2pkh, p2pkh.tx)]
    /\ ppc' = "done"
    /\ UNCHANGED tweakVars

\* ------------------------------------------------------------------------
\* Specifications
\* ------------------------------------------------------------------------
\* SHA256(b'TapTweak'), a fixed digest
TagDigest == <<3, 1>>

IdleTweak ==
    /\ pc = "idle"
    /\ wif_key = ToBytesBig(1, KeyLen)
    /\ FreshLocals
    /\ hashTable = (TapTweakBytes :> TagDigest)
    /\ prev = NoPrev

IdleP2pkh ==
    /\ ppc = "idle"
    /\ p2pkh = NoObjects

\* the tweaking script, for every key string a WIF can carry
Init ==
    /\ pc = "step1"
    /\ wif_key \in SeqsOfLen(Bytes, KeyLen)
    /\ FreshLocals
    /\ hashTable = (TapTweakBytes :> TagDigest)
    /\ prev = NoPrev
    /\ IdleP2pkh

Next ==
    \/ Step1_InternalKey
    \/ Step2_Commitment
    \/ Step3_Tweak
    \/ Step4_ApplyTweak
    \/ Step4_OutputKey
    \/ Step5_Verify
    \/ Return
    \/ Reinvoke

Spec == Init /\ [][Next]_vars

\* the verification step on its own: lines 66-68 have made a tweaked key
\* pair from some d', and the internal public key and the tweak are any
InitVerify ==
    /\ pc = "step5"
    /\ wif_key = ToBytesBig(1, KeyLen)
    /\ internal_private_key = NoInt
    /\ internal_public_key \in {GetPublicKey(d) : d \in 1 .. (curve_order - 1)}
    /\ script_commitment = << >>
    /\ internal_pubkey_bytes = << >>
    /\ tag_hash = << >>
    /\ tweak_preimage = << >>
    /\ tweak_hash \in Digests
    /\ tweak_int = TweakInt(tweak_hash)
    /\ internal_privkey_int = NoInt
    /\ tweaked_privkey_int \in 1 .. (curve_order - 1)
    /\ tweaked_private_key = tweaked_privkey_int
    /\ tweaked_public_key = GetPublicKey(tweaked_private_key)
    /\ expected_output_key_xonly = << >>
    /\ output_key_match = FALSE
    /\ verification_result = FALSE
    /\ result = NoResult
    /\ error = "none"
    /\ hashTable = (TapTweakBytes :> TagDigest)
    /\ prev = NoPrev
    /\ IdleP2pkh

NextVerify ==
    \/ Step5_Verify
    \/ Return

SpecVerify == InitVerify /\ [][NextVerify]_vars

\* the P2PKH script, for every sender key, output index and amount
InitP2pkh ==
    /\ IdleTweak
    /\ ppc = "keys"
    /\ \E d \in 1 .. (curve_order - 1), v \in VoutIndices, a \in Amounts :
         p2pkh = [NoObjects EXCEPT !.private_key = d, !.vout = v,
                                   !.amount_to_send = a]

NextP2pkh ==
    \/ P_Keys
    \/ P_TxIn
    \/ P_TxOut
    \/ P_Transaction
    \/ P_PrintUnsigned
    \/ P_LockingScript
    \/ P_Sign
    \/ P_ScriptSig
    \/ P_SerializeSigned

SpecP2pkh == InitP2pkh /\ [][NextP2pkh]_vars

\* ------------------------------------------------------------------------
\* Properties
\* ------------------------------------------------------------------------
\* the invocation has applied the tweak and holds a tweaked key pair
Tweaked == pc \in {"step4_output_key", "step5", "return", "returned"}

\* the invocation has computed the tweak hash
Hashed == pc \in {"step4", "step4_output_key", "step5", "return", "returned"}
             \/ (pc = "raised" /\ tweak_int # NoInt)

\* the value of a byte string read most significant byte first
RECURSIVE BigEndianValue(_, _)
BigEndianValue(b, i) ==
    IF i > Len(b) THEN 0
    ELSE b[i] * Pow(ByteBase, Len(b) - i) + BigEndianValue(b, i + 1)

\* C1: for every valid d and every commitment, the public-side tweak
\* P + t*G, by point addition, is the public key of the private-side
\* tweaked scalar (d + t) mod n; when that scalar is 0 both are the
\* point at infinity and no key pair is made.
C1_TweakPathsAgree ==
    /\ Tweaked =>
         /\ tweaked_privkey_int = (internal_privkey_int + tweak_int) % curve_order
         /\ PointAdd(internal_public_key, ScalarMul(tweak_int, G))
              = tweaked_public_key
    /\ (pc = "raised" /\ tweaked_privkey_int = 0) =>
         PointAdd(internal_public_key, ScalarMul(tweak_int, G)) = Inf

C1_Witness ==
    /\ pc = "returned"
    /\ ~HasEvenY(internal_public_key)
    /\ tweak_int >= curve_order
    /\ script_commitment # << >>

C3_OutputKeyMatchesLibrary ==
    (pc \in {"step5", "return", "returned"} /\ script_commitment = << >>) =>
      /\ output_key_match
      /\ OutputKeyXOnly(ToHex(tweaked_public_key)) = expected_output_key_xonly

\* C4: a tweak t >= n, or a tweaked scalar d' = 0, is rejected: no tweaked
\* key pair is made and nothing is returned.
C4_InvalidTweakRejected ==
    (tweak_int >= curve_order \/ tweaked_privkey_int = 0) =>
      /\ tweaked_private_key = NoInt
      /\ tweaked_public_key = Inf
      /\ ~result.returned

C6_TweakAndScalarInRange ==
    /\ tweak_int # NoInt => (0 <= tweak_int /\ tweak_int < KeySpace)
    /\ tweaked_privkey_int # NoInt =>
         /\ 0 <= tweaked_privkey_int /\ tweaked_privkey_int < curve_order
         /\ tweaked_privkey_int = (internal_privkey_int + tweak_int) % curve_order
         /\ tweaked_privkey_int < KeySpace
         /\ Len(ToBytesBig(tweaked_privkey_int, KeyLen)) = KeyLen
         /\ BigEndianValue(ToBytesBig(tweaked_privkey_int, KeyLen), 1)
              = tweaked_privkey_int
         /\ error # "OverflowError"

C6_Witness ==
    /\ Tweaked
    /\ tweak_int >= curve_order
    /\ internal_privkey_int + tweak_int >= 2 * curve_order
    /\ tweaked_privkey_int > 0

\* C7: tweak_hash = SHA256(T || T || x || c) with T = SHA256("TapTweak"),
\* x the KeyLen-byte x-only internal key and c the commitment, in that
\* order, and tweak_int is the big-endian value of tweak_hash.
C7_TaggedHashFormula ==
    Hashed =>
      /\ tag_hash = hashTable[TapTweakBytes]
      /\ internal_pubkey_bytes = ToBytesBig(internal_public_key[1], KeyLen)
      /\ Len(tweak_preimage) = 3 * KeyLen + Len(script_commitment)
      /\ SubSeq(tweak_preimage, 1, KeyLen) = tag_hash
      /\ SubSeq(tweak_preimage, KeyLen + 1, 2 * KeyLen) = tag_hash
      /\ SubSeq(tweak_preimage, 2 * KeyLen + 1, 3 * KeyLen)
           = internal_pubkey_bytes
      /\ SubSeq(tweak_preimage, 3 * KeyLen + 1, Len(tweak_preimage))
           = script_commitment
      /\ tweak_preimage \in DOMAIN hashTable
      /\ tweak_hash = hashTable[tweak_preimage]
      /\ tweak_int = BigEndianValue(tweak_hash, 1)

C7_Witness ==
    /\ pc = "returned"
    /\ script_commitment # << >>
    /\ tweak_hash[1] # tweak_hash[2]
    /\ internal_pubkey_bytes # script_commitment \o script_commitment

\* C8: for a fixed internal key, two different commitments give different
\* hashed preimages and, when the hash does not collide on them, different
\* tweak hashes and different tweaked output keys.
C8_CommitmentChangesOutputKey ==
    (prev.called /\ result.returned /\ prev.commitment # script_commitment) =>
      /\ prev.preimage # tweak_preimage
      /\ prev.ret.tweak_hash # result.tweak_hash =>
           prev.ret.tweaked_public # result.tweaked_public

\* C9: two invocations with the same internal key and the same commitment
\* return the same tweak hash and the same tweaked key pair, and each
\* returns the internal key pair it was given.
C9_Deterministic ==
    /\ result.returned =>
         /\ result.internal_private = FromBytesBig(wif_key)
         /\ result.internal_public = ScalarMul(FromBytesBig(wif_key), G)
    /\ (prev.called /\ result.returned /\ prev.commitment = script_commitment) =>
         /\ result.tweak_hash = prev.ret.tweak_hash
         /\ result.tweaked_private = prev.ret.tweaked_private
         /\ result.tweaked_public = prev.ret.tweaked_public
         /\ result.internal_private = prev.ret.internal_private
         /\ result.internal_public = prev.ret.internal_public

C9_Witness ==
    /\ prev.called
    /\ result.returned
    /\ prev.commitment = script_commitment
    /\ script_commitment = << >>

\* C10: the unsigned serialization has one input without unlocking script
\* and one output; the signature is made after it, by the sender's key, over
\* that transaction with the sender's P2PKH locking script in input 0; the
\* unlocking script is set after that, to [signature, public key]; and the
\* signed serialization, taken last, differs from the unsigned one in that
\* unlocking script only.
C10_P2pkhOrder ==
    LET unsigned == p2pkh.unsigned_tx
        lock == <<"OP_DUP", "OP_HASH160", p2pkh.from_address,
                  "OP_EQUALVERIFY", "OP_CHECKSIG">>
        unlock == <<p2pkh.signature, ToHex(p2pkh.public_key)>>
    IN  /\ unsigned # NoSerialization =>
             /\ Len(unsigned.inputs) = 1
             /\ Len(unsigned.outputs) = 1
             /\ unsigned.inputs[1][1] = PrevTxId
             /\ unsigned.inputs[1][2] = p2pkh.vout
             /\ unsigned.inputs[1][3] = << >>
             /\ unsigned.outputs[1][1] = p2pkh.amount_to_send
        /\ p2pkh.signature # NoSignature =>
             /\ unsigned # NoSerialization
             /\ p2pkh.signature.signer = p2pkh.private_key
             /\ p2pkh.signature.message =
                  <<[unsigned EXCEPT !.inputs[1][3] = lock], "SIGHASH_ALL">>
        /\ p2pkh.txin.script_sig # << >> =>
             /\ p2pkh.signature # NoSignature
             /\ p2pkh.txin.script_sig = unlock
        /\ p2pkh.signed_tx # NoSerialization =>
             /\ p2pkh.txin.script_sig = unlock
             /\ p2pkh.signed_tx = [unsigned EXCEPT !.inputs[1][3] = unlock]
        /\ ppc = "done" => p2pkh.signed_tx # NoSerialization
        /\ ppc \in {"keys", "txin", "txout", "tx", "print_unsigned"} =>
             unsigned = NoSerialization
        /\ ppc \in {"keys", "txin", "txout", "tx", "print_unsigned",
                    "locking_script", "sign"} =>
             p2pkh.signature = NoSignature
        /\ ppc # "done" => p2pkh.signed_tx = NoSerialization

C10_Witness ==
    /\ ppc = "done"
    /\ p2pkh.signed_tx.inputs[1][3] = <<p2pkh.signature, ToHex(p2pkh.public_key)>>
    /\ p2pkh.unsigned_tx.inputs[1][3] = << >>
    /\ ~HasEvenY(p2pkh.public_key)

=============================================================================
